---- MODULE Spec2Model ----
(***************************************************************************)
(* Model of the dependence checker: the control dependence builder         *)
(* (ControlDependence.cpp) and the data dependence tracker                  *)
(* (DataDependence.cpp).                                                    *)
(*                                                                          *)
(* Basic blocks and instructions are pointers in the source; here a block   *)
(* is its index in the function's block list (1..n) and NULL is 0, so the   *)
(* pointer order used by std::set / std::map is the index order.            *)
(***************************************************************************)
EXTENDS Integers, Sequences, FiniteSets

VARIABLES
  F,             \* the function handed to getControlDependencies: [n, succ]
  PDT,           \* its post-dominator tree: [IDom : node -> parent node]
  S,             \* vector<CFGEdge> S of getControlDependencies
  i,             \* loop index of updateControlDependencies
  controlDeps_,  \* std::map<BasicBlock *, std::set<BasicBlock *>>
  pc,            \* position of the builder: "idle", "update", "done", "crashed"
  runs,          \* number of getControlDependencies calls made on this instance
  prevDeps,      \* history: controlDeps_ as it was when the current call began
  walk,          \* history: nodes visited by the walk of the edge last handled
  lastEdge       \* history: edge last handled, its L and its parentA

cdVars == <<F, PDT, S, i, controlDeps_, pc, runs, prevDeps, walk, lastEdge>>

\* ------------------------------------------------------------------------
\* Bounds
\* ------------------------------------------------------------------------
NumBlocks == 3      \* every CFG over this many blocks is an input
MaxChain == 4       \* straight-line CFGs up to this many blocks
MaxRuns == 2        \* calls of getControlDependencies on one instance

NULL == 0
VirtualRoot == NULL - 1   \* tree node of LLVM's virtual exit; its block is NULL

\* ------------------------------------------------------------------------
\* Helpers on sequences and maps
\* ------------------------------------------------------------------------
Range(s) == {s[k] : k \in 1..Len(s)}

RECURSIVE SetToSortedSeq(_)
SetToSortedSeq(T) ==
  IF T = {} THEN <<>>
  ELSE LET m == CHOOSE x \in T : \A y \in T : x <= y
       IN <<m>> \o SetToSortedSeq(T \ {m})

EmptyMap == [x \in {} |-> <<>>]

\* m[k] = v for a std::map: inserts the key or overwrites its value
MapPut(m, k, v) == [x \in (DOMAIN m) \cup {k} |-> IF x = k THEN v ELSE m[x]]

\* std::map::operator[] used as an rvalue / reference: the value, default
\* constructed (empty) when the key is new
MapGet(m, k) == IF k \in DOMAIN m THEN m[k] ELSE <<>>

\* ------------------------------------------------------------------------
\* The CFG provider: blocks in layout order, successors per block
\* ------------------------------------------------------------------------
Blocks(f) == 1..f.n
Exits(f) == {b \in Blocks(f) : f.succ[b] = {}}

RECURSIVE ReachAvoiding(_, _, _)
\* blocks reachable from the set R without entering block x
ReachAvoiding(f, R, x) ==
  LET N == R \cup {c \in Blocks(f) : c # x /\ \E b \in R : c \in f.succ[b]}
  IN IF N = R THEN R ELSE ReachAvoiding(f, N, x)

ReachesExit(f, b) == ReachAvoiding(f, {b}, NULL) \cap Exits(f) # {}

\* x post-dominates y: every path from y to an exit goes through x
PostDominates(f, x, y) ==
  x = y \/ ReachAvoiding(f, {y}, x) \cap Exits(f) = {}

StrictPDoms(f, y) == {x \in Blocks(f) : x # y /\ PostDominates(f, x, y)}

\* The tree LLVM builds: one node per block, the parent of a block is its
\* immediate post-dominator; with several exits the roots hang under a
\* virtual root whose block is NULL; with one exit that exit is the root and
\* its parent is NULL.
BuildPDT(f) ==
  LET multi == Cardinality(Exits(f)) > 1
      top == IF multi THEN VirtualRoot ELSE NULL
      nodes == Blocks(f) \cup (IF multi THEN {VirtualRoot} ELSE {})
      parent(y) ==
        IF y = VirtualRoot THEN NULL
        ELSE IF StrictPDoms(f, y) = {} THEN top
        ELSE CHOOSE x \in StrictPDoms(f, y) :
               StrictPDoms(f, x) = StrictPDoms(f, y) \ {x}
  IN [IDom |-> [y \in nodes |-> parent(y)]]

\* Every CFG over n blocks in which each block reaches an exit. LLVM's tree
\* holds exactly the blocks that reach an exit; for any other block getNode
\* is NULL and updateControlDependencies would dereference it, so such
\* functions are not inputs here.
AllCFGs(n) ==
  {f \in [n : {n}, succ : [1..n -> SUBSET (1..n)]] :
     \A b \in 1..n : ReachesExit(f, b)}

ChainCFG(n) == [n |-> n, succ |-> [b \in 1..n |-> IF b < n THEN {b + 1} ELSE {}]]

\* Entry=1 -> A=2, A -> B=3, A -> C=4, B -> D=5, C -> D, D -> Exit=6
DiamondCFG ==
  [n |-> 6,
   succ |-> [b \in 1..6 |->
     CASE b = 1 -> {2} [] b = 2 -> {3, 4} [] b = 3 -> {5}
       [] b = 4 -> {5} [] b = 5 -> {6} [] OTHER -> {}]]

\* header H=1 branching to body X=2 and exit Y=3, back edge X -> H
LoopCFG ==
  [n |-> 3,
   succ |-> [b \in 1..3 |-> CASE b = 1 -> {2, 3} [] b = 2 -> {1} [] OTHER -> {}]]

InputCFGs ==
  AllCFGs(NumBlocks) \cup {ChainCFG(n) : n \in 1..MaxChain}
    \cup {DiamondCFG, LoopCFG}

\* ------------------------------------------------------------------------
\* The post-dominator tree provider (llvm::PostDominatorTree)
\* ------------------------------------------------------------------------
getNode(B) == B
getBlock(node) == IF node = VirtualRoot THEN NULL ELSE node
getIDom(T, node) == T.IDom[node]

RECURSIVE NodeAndIDoms(_, _)
\* the node and all its ancestors
NodeAndIDoms(T, node) ==
  IF node = NULL THEN {} ELSE {node} \cup NodeAndIDoms(T, getIDom(T, node))

\* dominates(A, B) on the post-dominator tree: A is B or an ancestor of B
dominates(T, A, B) == A = B \/ getNode(A) \in NodeAndIDoms(T, getNode(B))

properlyDominates(T, A, B) == A # B /\ dominates(T, A, B)

RECURSIVE FirstCommon(_, _, _)
FirstCommon(T, ADoms, node) ==
  IF node = NULL THEN NULL
  ELSE IF node \in ADoms THEN getBlock(node)
  ELSE FirstCommon(T, ADoms, getIDom(T, node))

findNearestCommonDominator(T, A, B) ==
  IF dominates(T, B, A) THEN B
  ELSE IF dominates(T, A, B) THEN A
  ELSE FirstCommon(T, NodeAndIDoms(T, getNode(A)), getIDom(T, getNode(B)))

\* ------------------------------------------------------------------------
\* ControlDependence
\* ------------------------------------------------------------------------
CFGEdge(A, B) == [tail |-> A, head |-> B]

\* successors of a block in the order succ_begin..succ_end yields them
Successors(f, A) == SetToSortedSeq(f.succ[A])

RECURSIVE EdgesFromAll(_, _, _, _)
\* getNonPDomEdges without its properlyDominates test: every edge is selected
EdgesFromAll(f, T, A, k) ==
  LET succs == SetToSortedSeq(f.succ[A])
  IN IF k > Len(succs) THEN <<>>
     ELSE <<[tail |-> A, head |-> succs[k]]>> \o EdgesFromAll(f, T, A, k + 1)

RECURSIVE EdgesFrom(_, _, _, _)
\* the inner loop of getNonPDomEdges over the successors of A, from the k-th
EdgesFrom(f, T, A, k) ==
  LET succs == Successors(f, A)
  IN IF k > Len(succs) THEN <<>>
     ELSE LET B == succs[k]
          IN (IF ~properlyDominates(T, B, A) THEN <<CFGEdge(A, B)>> ELSE <<>>)
               \o EdgesFrom(f, T, A, k + 1)

RECURSIVE NonPDomEdgesFrom(_, _, _)
NonPDomEdgesFrom(f, T, A) ==
  IF A > f.n THEN <<>>
  ELSE EdgesFrom(f, T, A, 1) \o NonPDomEdgesFrom(f, T, A + 1)

getNonPDomEdges(f, T) == NonPDomEdgesFrom(f, T, 1)

\* std::set<BasicBlock *>::insert on a set kept as its sorted element list
SetInsertDup(s, x) ==
  LET k == Cardinality({j \in 1..Len(s) : s[j] <= x})
  IN SubSeq(s, 1, k) \o <<x>> \o SubSeq(s, k + 1, Len(s))

SetInsert(s, x) ==
  IF x \in Range(s) THEN s
  ELSE LET k == Cardinality({j \in 1..Len(s) : s[j] < x})
       IN SubSeq(s, 1, k) \o <<x>> \o SubSeq(s, k + 1, Len(s))

RECURSIVE WalkUpIncl(_, _, _, _, _)
\* the walk as a do-while: parentA itself is marked too
WalkUpIncl(T, curNode, parentA, depSet, visited) ==
  IF curNode = NULL
    THEN [ok |-> FALSE, depSet |-> depSet, visited |-> visited]
  ELSE IF curNode = parentA
    THEN [ok |-> TRUE, depSet |-> SetInsert(depSet, getBlock(curNode)),
          visited |-> Append(visited, curNode)]
  ELSE WalkUpIncl(T, getIDom(T, curNode), parentA,
                  SetInsert(depSet, getBlock(curNode)), Append(visited, curNode))

RECURSIVE WalkUpShort(_, _, _, _, _)
\* the walk testing the parent of curNode: the child of parentA is left out
WalkUpShort(T, curNode, parentA, depSet, visited) ==
  IF curNode = parentA \/ curNode = NULL \/ getIDom(T, curNode) = parentA
    THEN [ok |-> TRUE, depSet |-> depSet, visited |-> visited]
  ELSE WalkUpShort(T, getIDom(T, curNode), parentA,
                   SetInsert(depSet, getBlock(curNode)), Append(visited, curNode))

RECURSIVE WalkUp(_, _, _, _, _)
\* the while loop of updateControlDependencies: from curNode up to parentA
\* (exclusive). ok is FALSE when the walk runs past the root, where the
\* source dereferences a NULL DomTreeNode.
WalkUp(T, curNode, parentA, depSet, visited) ==
  IF curNode = parentA
    THEN [ok |-> TRUE, depSet |-> depSet, visited |-> visited]
  ELSE IF curNode = NULL
    THEN [ok |-> FALSE, depSet |-> depSet, visited |-> visited]
  ELSE WalkUp(T, getIDom(T, curNode), parentA,
              SetInsert(depSet, getBlock(curNode)), Append(visited, curNode))

NoEdge == [tail |-> NULL, head |-> NULL, L |-> NULL, parentA |-> NULL]

CDInit ==
  /\ F \in InputCFGs
  /\ PDT = BuildPDT(F)
  /\ S = <<>>
  /\ i = 0
  /\ controlDeps_ = EmptyMap
  /\ pc = "idle"
  /\ runs = 0
  /\ prevDeps = EmptyMap
  /\ walk = <<>>
  /\ lastEdge = NoEdge

\* getControlDependencies up to the call of updateControlDependencies
getControlDependencies ==
  /\ pc \in {"idle", "done"}
  /\ runs < MaxRuns
  /\ S' = getNonPDomEdges(F, PDT)
  /\ i' = 1
  /\ pc' = "update"
  /\ runs' = runs + 1
  /\ prevDeps' = controlDeps_
  /\ walk' = <<>>
  /\ lastEdge' = NoEdge
  /\ UNCHANGED <<F, PDT, controlDeps_>>

\* the iteration without its `continue`: the walk is made although L is NULL
SkipEdgeWalk ==
  /\ pc = "update"
  /\ i <= Len(S)
  /\ LET A == S[i].tail
         B == S[i].head
         L == findNearestCommonDominator(PDT, A, B)
         parentA == getIDom(PDT, getNode(A))
         r == WalkUp(PDT, getNode(B), parentA, MapGet(controlDeps_, A), <<>>)
     IN /\ L = NULL
        /\ lastEdge' = [tail |-> A, head |-> B, L |-> L, parentA |-> NULL]
        /\ controlDeps_' = MapPut(controlDeps_, A, r.depSet)
        /\ IF r.ok THEN pc' = pc /\ i' = i + 1
                   ELSE pc' = "crashed" /\ i' = i
  /\ walk' = <<>>
  /\ UNCHANGED <<F, PDT, S, runs, prevDeps>>

\* one iteration of the for loop whose edge has no nearest common dominator
SkipEdge ==
  /\ pc = "update"
  /\ i <= Len(S)
  /\ LET A == S[i].tail
         B == S[i].head
         L == findNearestCommonDominator(PDT, A, B)
     IN /\ L = NULL
        /\ lastEdge' = [tail |-> A, head |-> B, L |-> L, parentA |-> NULL]
  /\ walk' = <<>>
  /\ i' = i + 1
  /\ UNCHANGED <<F, PDT, S, controlDeps_, pc, runs, prevDeps>>

\* one iteration of the for loop whose edge has a nearest common dominator
MarkEdge ==
  /\ pc = "update"
  /\ i <= Len(S)
  /\ LET A == S[i].tail
         B == S[i].head
         L == findNearestCommonDominator(PDT, A, B)
         parentA == getIDom(PDT, getNode(A))
         r == WalkUp(PDT, getNode(B), parentA, MapGet(controlDeps_, A), <<>>)
     IN /\ L # NULL
        /\ lastEdge' = [tail |-> A, head |-> B, L |-> L, parentA |-> parentA]
        /\ controlDeps_' = MapPut(controlDeps_, A, r.depSet)
        /\ walk' = r.visited
        /\ IF r.ok THEN pc' = pc /\ i' = i + 1
                   ELSE pc' = "crashed" /\ i' = i
  /\ UNCHANGED <<F, PDT, S, runs, prevDeps>>

\* the for loop ends and getControlDependencies returns
updateDone ==
  /\ pc = "update"
  /\ i > Len(S)
  /\ pc' = "done"
  /\ UNCHANGED <<F, PDT, S, i, controlDeps_, runs, prevDeps, walk, lastEdge>>

\* ------------------------------------------------------------------------
\* DataDependence
\* ------------------------------------------------------------------------
VARIABLES
  Proc,          \* the procedure: Proc[instIt] is its instIt-th instruction
  instIt,             \* inst_iterator of getDataDependencies
  LocalDeps_,    \* std::map<Instruction *, DepInfo>
  NonLocalDeps_, \* std::map<Instruction *, std::vector<NonLocalDepResult>>
  ddpc,          \* position of the tracker: "idle", "run", "done", "aborted"
  ddruns,        \* number of getDataDependencies calls made on this instance
  callLimit,     \* number of getDataDependencies calls the driver makes
  last,          \* history: what processDepResult did for the instruction last handled
  runLog,        \* history: per instruction, the oracle's answers in the current call
  fatalSeen      \* history: an assert(false) / llvm_unreachable site was reached

ddVars ==
  <<Proc, instIt, LocalDeps_, NonLocalDeps_, ddpc, ddruns, callLimit, last, runLog,
    fatalSeen>>

NumInsts == 2       \* instructions per procedure
MaxNLDep == 2       \* entries one getNonLocalPointerDependency call reports

\* An instruction: its opcode class and, for loads and stores, isUnordered().
\* "call" stands for the memory-accessing instructions that are none of
\* load, store and va_arg; "add" for the ones that touch no memory.
InstKinds ==
  {[op |-> "load", unordered |-> TRUE], [op |-> "load", unordered |-> FALSE],
   [op |-> "store", unordered |-> TRUE], [op |-> "store", unordered |-> FALSE],
   [op |-> "vaarg", unordered |-> TRUE], [op |-> "call", unordered |-> TRUE],
   [op |-> "add", unordered |-> TRUE]}

mayReadFromMemory(inst) == Proc[inst].op \in {"load", "vaarg", "call"}
mayWriteToMemory(inst) == Proc[inst].op \in {"store", "vaarg", "call"}
isUnordered(inst) == Proc[inst].unordered
\* every instruction sits in a block of its own: the block's index is its own
getParent(inst) == inst

\* MemDepResult: exactly one of the five predicates holds
MemDepKinds == {"clobber", "def", "nonfunclocal", "unknown", "nonlocal"}
isClobber(dep) == dep.kind = "clobber"
isDef(dep) == dep.kind = "def"
isNonFuncLocal(dep) == dep.kind = "nonfunclocal"
isUnknown(dep) == dep.kind = "unknown"
isNonLocal(dep) == dep.kind = "nonlocal"
getInst(dep) == dep.inst

\* what MDA.getDependency may answer: any kind, with no instruction or with
\* the procedure's first instruction
OracleResults == [kind : MemDepKinds, inst : {NULL, 1}]

\* what MDA.getNonLocalPointerDependency may put into NLDep: the entries of
\* the first n predecessor blocks, in the oracle's order
OracleNLDeps == {[j \in 1..n |-> j] : n \in 0..MaxNLDep}

DepInfo(inst, d) == [DepInst_ |-> inst, Type_ |-> d]
DefaultDepInfo == DepInfo(NULL, "Invalid")
valid(info) == IF info.Type_ = "Invalid" THEN FALSE ELSE TRUE

getDepInfoSwapped(dep) ==
  IF isClobber(dep) THEN DepInfo(getInst(dep), "Def")
  ELSE IF isDef(dep) THEN DepInfo(getInst(dep), "Clobber")
  ELSE IF isNonFuncLocal(dep) THEN DepInfo(getInst(dep), "NonFuncLocal")
  ELSE IF isUnknown(dep) THEN DepInfo(getInst(dep), "Unknown")
  ELSE IF isNonLocal(dep) THEN DepInfo(getInst(dep), "NonLocal")
  ELSE DefaultDepInfo

getDepInfo(dep) ==
  IF isClobber(dep) THEN DepInfo(getInst(dep), "Clobber")
  ELSE IF isDef(dep) THEN DepInfo(getInst(dep), "Def")
  ELSE IF isNonFuncLocal(dep) THEN DepInfo(getInst(dep), "NonFuncLocal")
  ELSE IF isUnknown(dep) THEN DepInfo(getInst(dep), "Unknown")
  ELSE IF isNonLocal(dep) THEN DepInfo(getInst(dep), "NonLocal")
  ELSE DefaultDepInfo

\* the record assigned from NLDep instead of appended to
PushBackOverwrite(m, inst, NLDep) ==
  IF NLDep = <<>> THEN m ELSE MapPut(m, inst, NLDep)

RECURSIVE PushBackAll(_, _, _)
\* the for loop over NLDep: NonLocalDeps_[inst].push_back(*I) for each entry
\* from the j-th; the key is only touched inside the loop
PushBackAll(m, inst, NLDep) ==
  IF NLDep = <<>> THEN m
  ELSE PushBackAll(MapPut(m, inst, Append(MapGet(m, inst), Head(NLDep))),
                   inst, Tail(NLDep))

NoQuery == [made |-> FALSE, isRead |-> FALSE, block |-> NULL]
Query(isRead, block) == [made |-> TRUE, isRead |-> isRead, block |-> block]

NoLast ==
  [inst |-> NULL, Res |-> [kind |-> "none", inst |-> NULL],
   newInfo |-> DefaultDepInfo, query |-> NoQuery, NLDep |-> <<>>,
   path |-> "none"]

Last(inst, Res, path, query, NLDep) ==
  [inst |-> inst, Res |-> Res, newInfo |-> getDepInfo(Res), query |-> query,
   NLDep |-> NLDep, path |-> path]

\* a fresh instance and a procedure; the driver calls up to limit times
DDInitCalls(limit) ==
  /\ Proc \in [1..NumInsts -> InstKinds]
  /\ callLimit = limit
  /\ instIt = 0
  /\ LocalDeps_ = EmptyMap
  /\ NonLocalDeps_ = EmptyMap
  /\ ddpc = "idle"
  /\ ddruns = 0
  /\ last = NoLast
  /\ runLog = EmptyMap
  /\ fatalSeen = FALSE

DDInit == DDInitCalls(MaxRuns)

\* getDataDependencies clearing both maps on entry
getDataDependenciesClearing ==
  /\ ddpc \in {"idle", "done"}
  /\ ddruns < callLimit
  /\ instIt' = 1
  /\ ddpc' = "run"
  /\ ddruns' = ddruns + 1
  /\ last' = NoLast
  /\ runLog' = EmptyMap
  /\ LocalDeps_' = EmptyMap
  /\ NonLocalDeps_' = EmptyMap
  /\ UNCHANGED <<Proc, callLimit, fatalSeen>>

\* getDataDependencies is entered: the instruction iterator starts
getDataDependencies ==
  /\ ddpc \in {"idle", "done"}
  /\ ddruns < callLimit
  /\ instIt' = 1
  /\ ddpc' = "run"
  /\ ddruns' = ddruns + 1
  /\ last' = NoLast
  /\ runLog' = EmptyMap
  /\ UNCHANGED <<Proc, callLimit, LocalDeps_, NonLocalDeps_, fatalSeen>>

\* skip non memory accesses
SkipInst ==
  /\ ddpc = "run"
  /\ instIt <= Len(Proc)
  /\ ~mayReadFromMemory(instIt) /\ ~mayWriteToMemory(instIt)
  /\ instIt' = instIt + 1
  /\ UNCHANGED <<Proc, callLimit, LocalDeps_, NonLocalDeps_, ddpc, ddruns, last,
               runLog, fatalSeen>>

\* processDepResult, the oracle's answer is not non-local
ProcessLocal(inst, Res) ==
  /\ ~isNonLocal(Res)
  /\ LET newInfo == getDepInfo(Res)
     IN IF valid(newInfo)
          THEN /\ LocalDeps_' = MapPut(LocalDeps_, inst, newInfo)
               /\ ddpc' = ddpc /\ instIt' = instIt + 1 /\ fatalSeen' = fatalSeen
          ELSE /\ LocalDeps_' = LocalDeps_
               /\ ddpc' = "aborted" /\ instIt' = instIt /\ fatalSeen' = TRUE
  /\ last' = Last(inst, Res, "local", NoQuery, <<>>)
  /\ runLog' = MapPut(runLog, inst, [local |-> TRUE, NLDep |-> <<>>])
  /\ UNCHANGED <<Proc, callLimit, NonLocalDeps_, ddruns>>

\* processDepResult, non-local answer for an unordered load or store or a
\* va_arg: the location query and the push_back loop
ProcessNonLocal(inst, Res) ==
  /\ isNonLocal(Res)
  /\ \/ Proc[inst].op \in {"load", "store"} /\ isUnordered(inst)
     \/ Proc[inst].op = "vaarg"
  /\ \E NLDep \in OracleNLDeps :
       LET isRead == IF Proc[inst].op = "load" THEN TRUE ELSE FALSE
       IN /\ NonLocalDeps_' = PushBackAll(NonLocalDeps_, inst, NLDep)
          /\ last' = Last(inst, Res, "nonlocal", Query(isRead, getParent(inst)), NLDep)
          /\ runLog' = MapPut(runLog, inst, [local |-> FALSE, NLDep |-> NLDep])
  /\ instIt' = instIt + 1
  /\ UNCHANGED <<Proc, callLimit, LocalDeps_, ddpc, ddruns, fatalSeen>>

\* processDepResult, non-local answer for an atomic or volatile load or
\* store: the warning, then assert(false). With assertions compiled in the
\* process aborts; with NDEBUG the return after the assert is taken.
ProcessOrderedAbort(inst, Res) ==
  /\ isNonLocal(Res)
  /\ Proc[inst].op \in {"load", "store"} /\ ~isUnordered(inst)
  /\ last' = Last(inst, Res, "unsupported", NoQuery, <<>>)
  /\ fatalSeen' = TRUE
  /\ ddpc' = "aborted"
  /\ UNCHANGED <<Proc, callLimit, instIt, LocalDeps_, NonLocalDeps_, ddruns, runLog>>

\* the unsupported access recorded as an Unknown dependence instead
ProcessOrderedRecord(inst, Res) ==
  /\ isNonLocal(Res)
  /\ Proc[inst].op \in {"load", "store"} /\ ~isUnordered(inst)
  /\ last' = Last(inst, Res, "unsupported", NoQuery, <<>>)
  /\ fatalSeen' = TRUE
  /\ instIt' = instIt + 1
  /\ LocalDeps_' = MapPut(LocalDeps_, inst, DepInfo(NULL, "Unknown"))
  /\ UNCHANGED <<Proc, callLimit, NonLocalDeps_, ddpc, ddruns, runLog>>

ProcessOrderedReturn(inst, Res) ==
  /\ isNonLocal(Res)
  /\ Proc[inst].op \in {"load", "store"} /\ ~isUnordered(inst)
  /\ last' = Last(inst, Res, "unsupported", NoQuery, <<>>)
  /\ fatalSeen' = TRUE
  /\ instIt' = instIt + 1
  /\ UNCHANGED <<Proc, callLimit, LocalDeps_, NonLocalDeps_, ddpc, ddruns, runLog>>

\* processDepResult, non-local answer for any other memory instruction:
\* llvm_unreachable. It aborts when assertions are compiled in and is
\* undefined otherwise; falling through to the loop over the empty NLDep is
\* the other outcome modelled.
ProcessUnknownAbort(inst, Res) ==
  /\ isNonLocal(Res)
  /\ Proc[inst].op \notin {"load", "store", "vaarg"}
  /\ last' = Last(inst, Res, "unknown", NoQuery, <<>>)
  /\ fatalSeen' = TRUE
  /\ ddpc' = "aborted"
  /\ UNCHANGED <<Proc, callLimit, instIt, LocalDeps_, NonLocalDeps_, ddruns, runLog>>

ProcessUnknownFallThrough(inst, Res) ==
  /\ isNonLocal(Res)
  /\ Proc[inst].op \notin {"load", "store", "vaarg"}
  /\ last' = Last(inst, Res, "unknown", NoQuery, <<>>)
  /\ fatalSeen' = TRUE
  /\ instIt' = instIt + 1
  /\ UNCHANGED <<Proc, callLimit, LocalDeps_, NonLocalDeps_, ddpc, ddruns, runLog>>

\* one iteration of the loop of getDataDependencies on a memory access
processDepResult ==
  /\ ddpc = "run"
  /\ instIt <= Len(Proc)
  /\ mayReadFromMemory(instIt) \/ mayWriteToMemory(instIt)
  /\ \E Res \in OracleResults :
       \/ ProcessLocal(instIt, Res)
       \/ ProcessNonLocal(instIt, Res)
       \/ ProcessOrderedAbort(instIt, Res)
       \/ ProcessOrderedReturn(instIt, Res)
       \/ ProcessUnknownAbort(instIt, Res)
       \/ ProcessUnknownFallThrough(instIt, Res)

\* the loop of getDataDependencies ends
dataDone ==
  /\ ddpc = "run"
  /\ instIt > Len(Proc)
  /\ ddpc' = "done"
  /\ UNCHANGED <<Proc, callLimit, instIt, LocalDeps_, NonLocalDeps_, ddruns, last,
               runLog, fatalSeen>>

\* ------------------------------------------------------------------------
\* Specifications: the two components share no state and never interact
\* ------------------------------------------------------------------------
vars == <<cdVars, ddVars>>

\* the tracker before any call, on an empty procedure
DDIdle ==
  /\ Proc = <<>> /\ instIt = 0 /\ LocalDeps_ = EmptyMap /\ NonLocalDeps_ = EmptyMap
  /\ ddpc = "idle" /\ ddruns = 0 /\ last = NoLast /\ runLog = EmptyMap
  /\ fatalSeen = FALSE /\ callLimit = 0

\* the builder before any call, on the one-block function
CDIdle ==
  /\ F = ChainCFG(1) /\ PDT = BuildPDT(F) /\ S = <<>> /\ i = 0
  /\ controlDeps_ = EmptyMap /\ pc = "idle" /\ runs = 0 /\ prevDeps = EmptyMap
  /\ walk = <<>> /\ lastEdge = NoEdge

\* the Control Dependence Builder
Init == CDInit /\ DDIdle
Next ==
  \/ getControlDependencies /\ UNCHANGED ddVars
  \/ SkipEdge /\ UNCHANGED ddVars
  \/ MarkEdge /\ UNCHANGED ddVars
  \/ updateDone /\ UNCHANGED ddVars
Spec == Init /\ [][Next]_vars

\* the Data Dependence Tracker, called up to MaxRuns times on one instance
InitData == DDInit /\ CDIdle
NextData ==
  \/ getDataDependencies /\ UNCHANGED cdVars
  \/ SkipInst /\ UNCHANGED cdVars
  \/ processDepResult /\ UNCHANGED cdVars
  \/ dataDone /\ UNCHANGED cdVars
SpecData == InitData /\ [][NextData]_vars

\* the Data Dependence Tracker, called once on a fresh instance
InitDataOnce == DDInitCalls(1) /\ CDIdle
SpecDataOnce == InitDataOnce /\ [][NextData]_vars

\* ------------------------------------------------------------------------
\* Properties of the Control Dependence Builder (checked under Spec)
\* ------------------------------------------------------------------------
Dependents(A) == Range(MapGet(controlDeps_, A))

\* X is control dependent on A by the definition on CFG paths: some edge
\* A -> B has X post-dominating B while X does not properly post-dominate A
ControlDependent(f, A, X) ==
  /\ \E B \in f.succ[A] : PostDominates(f, X, B)
  /\ ~(X # A /\ PostDominates(f, X, A))

SingleExit(f) == Cardinality(Exits(f)) = 1

\* C1: on a single-exit CFG whose blocks all reach the exit, the map a fresh
\* instance builds is exactly the control dependence relation keyed by the
\* controller: X is in controlDeps_[A] iff X is control dependent on A.
C1_MapIsControlDependence ==
  (pc = "done" /\ runs = 1 /\ SingleExit(F)) =>
    /\ DOMAIN controlDeps_ \subseteq Blocks(F)
    /\ \A A \in Blocks(F) :
         Dependents(A) = {X \in Blocks(F) : ControlDependent(F, A, X)}

C1_Witness ==
  /\ pc = "done" /\ runs = 1 /\ SingleExit(F)
  /\ \E A \in DOMAIN controlDeps_ : A \in Dependents(A) /\ Len(controlDeps_[A]) >= 2

\* C2: for the diamond CFG the map of a fresh instance is controlDeps_[A] =
\* {B, C} and A is its only key.
C2_Diamond ==
  (F = DiamondCFG /\ pc = "done" /\ runs = 1) =>
    /\ DOMAIN controlDeps_ = {2}
    /\ controlDeps_[2] = <<3, 4>>

C2_Witness == F = DiamondCFG /\ pc = "done" /\ runs = 1 /\ 2 \in DOMAIN controlDeps_

\* C3: in the loop CFG the header H ends up in its own dependent-set, and
\* whenever a handled edge A -> B has L = A, A is in controlDeps_[A].
C3_SelfDependence ==
  /\ (F = LoopCFG /\ pc = "done") => 1 \in Dependents(1)
  /\ (lastEdge.L # NULL /\ lastEdge.L = lastEdge.tail) =>
       lastEdge.tail \in Dependents(lastEdge.tail)

C3_Witness ==
  /\ F = LoopCFG /\ pc = "done"
  /\ lastEdge.tail = 1 /\ lastEdge.head = 2 /\ lastEdge.L = 1
  /\ 1 \in Dependents(1)

\* a chain: one exit, every block with at most one successor and at most one
\* predecessor
IsChain(f) ==
  /\ SingleExit(f)
  /\ \A b \in Blocks(f) : Cardinality(f.succ[b]) <= 1
  /\ \A b \in Blocks(f) : Cardinality({a \in Blocks(f) : b \in f.succ[a]}) <= 1

\* C4: on a straight-line CFG every edge's head properly post-dominates its
\* tail, so S is empty and the map never gets a key.
C4_StraightLine ==
  IsChain(F) =>
    /\ \A A \in Blocks(F) : \A B \in F.succ[A] : properlyDominates(PDT, B, A)
    /\ pc \in {"update", "done"} => S = <<>>
    /\ DOMAIN controlDeps_ = {}

C4_Witness == IsChain(F) /\ F.n >= 3 /\ pc = "done" /\ S = <<>>

\* C8: a second (or later) run on the same instance, CFG and tree ends with
\* the map the run started with, and no dependent-set holds a block twice.
C8_Idempotent ==
  /\ (pc = "done" /\ runs >= 2) => controlDeps_ = prevDeps
  /\ \A A \in DOMAIN controlDeps_ :
       Len(controlDeps_[A]) = Cardinality(Range(controlDeps_[A]))

C8_Witness ==
  /\ pc = "done" /\ runs = 2
  /\ \E A \in DOMAIN controlDeps_ : Len(controlDeps_[A]) >= 2

\* C10: at every loop boundary of the build and after it, every key of the
\* map has a non-empty dependent-set; the walk of a handled edge starts at a
\* node other than parentA and so marks at least one block.
C10_KeysNonEmpty ==
  /\ \A A \in DOMAIN controlDeps_ : controlDeps_[A] # <<>>
  /\ lastEdge.L # NULL =>
       /\ getNode(lastEdge.head) # lastEdge.parentA
       /\ walk # <<>>
       /\ lastEdge.tail \in DOMAIN controlDeps_

C10_Witness ==
  /\ pc = "update" /\ runs = 1 /\ i <= Len(S)
  /\ lastEdge.L # NULL
  /\ lastEdge.tail \in DOMAIN controlDeps_

\* ------------------------------------------------------------------------
\* Properties of the Data Dependence Tracker (checked under SpecData)
\* ------------------------------------------------------------------------
MemoryInsts == {inst \in 1..Len(Proc) : mayReadFromMemory(inst) \/ mayWriteToMemory(inst)}

IsOrderedAccess(inst) ==
  Proc[inst].op \in {"load", "store"} /\ ~isUnordered(inst)

\* C5: after a call on a fresh instance that reached no fatal site, every
\* memory-accessing instruction is a key of exactly one of the two maps.
C5_Partition ==
  (ddpc = "done" /\ ddruns = 1 /\ ~fatalSeen) =>
    \A inst \in MemoryInsts :
      (inst \in DOMAIN LocalDeps_) # (inst \in DOMAIN NonLocalDeps_)

TagOf(kind) ==
  CASE kind = "clobber" -> "Clobber"
    [] kind = "def" -> "Def"
    [] kind = "nonfunclocal" -> "NonFuncLocal"
    [] kind = "unknown" -> "Unknown"
    [] kind = "nonlocal" -> "NonLocal"

\* C7: getDepInfo maps each of the five predicates to its own tag and keeps
\* the reported instruction; the record stored for a local answer is that
\* DepInfo, and no record in LocalDeps_ has kind Invalid.
C7_Classification ==
  /\ last.inst # NULL =>
       /\ last.newInfo = DepInfo(last.Res.inst, TagOf(last.Res.kind))
       /\ last.path = "local" => LocalDeps_[last.inst] = last.newInfo
  /\ \A inst \in DOMAIN LocalDeps_ : LocalDeps_[inst].Type_ # "Invalid"

C7_Witness ==
  /\ last.inst # NULL /\ last.path = "local"
  /\ last.Res = [kind |-> "def", inst |-> 1]
  /\ LocalDeps_[last.inst] = DepInfo(1, "Def")
  /\ \E inst \in DOMAIN LocalDeps_ : LocalDeps_[inst] = DepInfo(NULL, "NonFuncLocal")

IsPrefix(s, t) == Len(s) <= Len(t) /\ SubSeq(t, 1, Len(s)) = s

\* the maps hold the answers of the current call and nothing else (an
\* instruction whose location query reported no entry may have no key)
HoldsLatestRunOnly ==
  /\ \A inst \in DOMAIN LocalDeps_ :
       inst \in DOMAIN runLog /\ runLog[inst].local
  /\ \A inst \in DOMAIN NonLocalDeps_ :
       /\ inst \in DOMAIN runLog /\ ~runLog[inst].local
       /\ NonLocalDeps_[inst] = runLog[inst].NLDep

\* C9 as stated: after any call the maps hold exactly the results of that
\* call; nothing of an earlier call remains.
C9_FreshPerInvocation == (ddpc = "done" /\ ~fatalSeen) => HoldsLatestRunOnly

\* C9 amended: the maps are never cleared. A call removes no key, leaves
\* every Non-Local record as a prefix of the new one and changes a Local
\* record only by storing the newer local answer; only during the first call
\* on a fresh instance do the maps hold the results of that call alone.
C9_NeverCleared ==
  [][/\ DOMAIN LocalDeps_ \subseteq DOMAIN LocalDeps_'
     /\ DOMAIN NonLocalDeps_ \subseteq DOMAIN NonLocalDeps_'
     /\ \A inst \in DOMAIN NonLocalDeps_ :
          IsPrefix(NonLocalDeps_[inst], NonLocalDeps_'[inst])
     /\ \A inst \in DOMAIN LocalDeps_ :
          LocalDeps_'[inst] # LocalDeps_[inst] =>
            last'.inst = inst /\ last'.path = "local"
     /\ (ddruns' = 1 /\ ~fatalSeen') => HoldsLatestRunOnly']_vars

C9_Witness ==
  /\ ddpc = "done" /\ ddruns = 2
  /\ \E inst \in DOMAIN NonLocalDeps_ :
       /\ inst \in DOMAIN runLog /\ runLog[inst].NLDep # <<>>
       /\ Len(NonLocalDeps_[inst]) > Len(runLog[inst].NLDep)

\* the instruction classes for which processDepResult issues the location
\* query on a non-local answer
IssuesLocationQuery(inst) ==
  \/ Proc[inst].op \in {"load", "store"} /\ isUnordered(inst)
  \/ Proc[inst].op = "vaarg"

\* C11: on a non-local answer the location query is issued with isRead =
\* true for a load and for a va_arg alike, with isRead = false for a store,
\* and always with the block that contains the instruction.
C11_QueryOrientation ==
  (last.inst # NULL /\ last.Res.kind = "nonlocal" /\ IssuesLocationQuery(last.inst)) =>
    /\ last.query.made
    /\ last.query.block = getParent(last.inst)
    /\ last.query.isRead = (Proc[last.inst].op \in {"load", "vaarg"})

\* ------------------------------------------------------------------------
\* Further properties of the Control Dependence Builder (checked under Spec)
\* ------------------------------------------------------------------------
EdgeL(e) == findNearestCommonDominator(PDT, e.tail, e.head)

\* C12: an iteration whose edge has no nearest common dominator leaves the
\* map as it was (no block added, no key created), raises nothing and moves
\* on to the next edge; the build still ends, and when it has ended every
\* edge of S that has a nearest common dominator has been marked.
C12_SkipWithoutEffect ==
  /\ [][(pc = "update" /\ i <= Len(S) /\ EdgeL(S[i]) = NULL) =>
          /\ controlDeps_' = controlDeps_
          /\ pc' = "update"
          /\ i' = i + 1
          /\ S' = S
          /\ lastEdge'.tail = S[i].tail /\ lastEdge'.head = S[i].head]_vars
  /\ [](pc # "crashed")
  /\ [](pc = "done" =>
          /\ i = Len(S) + 1
          /\ \A j \in 1..Len(S) :
               EdgeL(S[j]) # NULL => S[j].head \in Dependents(S[j].tail)
          /\ \A A \in Blocks(F) :
               (\A j \in 1..Len(S) : S[j].tail = A => EdgeL(S[j]) = NULL)
                 => A \notin DOMAIN controlDeps_)

\* a skipped edge was followed by an edge that was marked
C12_Witness ==
  /\ pc = "done" /\ runs = 1
  /\ lastEdge.L # NULL /\ lastEdge.tail \in DOMAIN controlDeps_
  /\ \E j \in 1..(Len(S) - 1) : EdgeL(S[j]) = NULL

\* C14: the walk of every handled edge A -> B (L exists) ends without
\* running past the root. When A has a parent, L is A or the parent's block;
\* the walk starts at B, follows the immediate-post-dominator links, stops
\* at the child of parentA, never marks parentA, and goes through A when L =
\* A. When A has no parent the walk ends at the root, which it marks. In both
\* cases every node visited is marked as dependent on A.
C14_WalkReachesParent ==
  /\ pc # "crashed"
  /\ lastEdge.L # NULL =>
       LET A == lastEdge.tail
           B == lastEdge.head
           parentA == lastEdge.parentA
       IN /\ parentA = getIDom(PDT, getNode(A))
          /\ walk # <<>>
          /\ walk[1] = getNode(B)
          /\ \A k \in 1..(Len(walk) - 1) : walk[k + 1] = getIDom(PDT, walk[k])
          /\ getIDom(PDT, walk[Len(walk)]) = parentA
          /\ NULL \notin Range(walk)
          /\ {getBlock(node) : node \in Range(walk)} \subseteq Dependents(A)
          /\ parentA # NULL =>
               /\ lastEdge.L \in {A, getBlock(parentA)}
               /\ parentA \notin Range(walk)
               /\ getBlock(parentA) \notin Dependents(A)
               /\ lastEdge.L = A => getNode(A) \in Range(walk)
          /\ parentA = NULL =>
               getIDom(PDT, walk[Len(walk)]) = NULL

\* the loop case: L = A, the walk goes B, ..., A and stops below parentA
C14_Witness ==
  /\ pc = "done" /\ runs = 1
  /\ lastEdge.L # NULL /\ lastEdge.L = lastEdge.tail
  /\ lastEdge.head # lastEdge.tail
  /\ lastEdge.parentA \notin {NULL, VirtualRoot}
  /\ Len(walk) >= 2 /\ walk[Len(walk)] = getNode(lastEdge.tail)

\* ------------------------------------------------------------------------
\* Further properties of the Data Dependence Tracker (checked under SpecData)
\* ------------------------------------------------------------------------
\* the Non-Local record of inst as operator[] reads it: empty when inst has
\* no key yet
NonLocalRecord(m, inst) == MapGet(m, inst)

\* C13: every step that handles a memory instruction appends to that
\* instruction's Non-Local record exactly the entries the location query
\* returned, in the order received, and touches no other Non-Local record;
\* it replaces that instruction's Local record by the answer of a local
\* query and touches no other Local record. No other step changes a record.
\* From the empty maps of a fresh instance this makes each Non-Local record
\* the concatenation, in invocation order, of the oracle's entry sequences
\* and each Local record the most recent local answer.
C13_AppendAndOverwrite ==
  [][IF ddpc = "run" /\ instIt \in MemoryInsts
       THEN /\ last'.inst = instIt
            /\ \A inst \in 1..Len(Proc) :
                 NonLocalRecord(NonLocalDeps_', inst) =
                   NonLocalRecord(NonLocalDeps_, inst)
                     \o (IF inst = instIt /\ last'.query.made
                           THEN last'.NLDep ELSE <<>>)
            /\ DOMAIN NonLocalDeps_' \subseteq 1..Len(Proc)
            /\ IF last'.path = "local" /\ ddpc' # "aborted"
                 THEN LocalDeps_' =
                        MapPut(LocalDeps_, instIt,
                               DepInfo(last'.Res.inst, TagOf(last'.Res.kind)))
                 ELSE LocalDeps_' = LocalDeps_
       ELSE UNCHANGED <<LocalDeps_, NonLocalDeps_>>]_vars

\* a second call appended <<1>> to the <<1, 2>> of the first call, and
\* stored a local answer for another instruction that already had a record
C13_Witness ==
  /\ ddpc = "done" /\ ddruns = 2
  /\ \E inst \in DOMAIN NonLocalDeps_ :
       /\ NonLocalDeps_[inst] = <<1, 2, 1>>
       /\ inst \in DOMAIN runLog /\ runLog[inst].NLDep = <<1>>
  /\ \E inst \in DOMAIN LocalDeps_ :
       /\ inst \in DOMAIN runLog /\ runLog[inst].local
       /\ LocalDeps_[inst] = DepInfo(NULL, "Clobber")
====
